---- MODULE Spec2Model ----
(***************************************************************************)
(* A model of geojson/utils.py: the coordinate extractor coords, the       *)
(* coordinate mapper map_coords and the random geometry generator          *)
(* generate_random.                                                        *)
(*                                                                         *)
(* Python values are tagged records, so that a list and a tuple holding    *)
(* the same numbers are different values, as they are under Python's ==:   *)
(*   a number      [k |-> "num",   v |-> n]                                *)
(*   a list        [k |-> "list",  items |-> <<...>>]                      *)
(*   a tuple       [k |-> "tuple", items |-> <<...>>]                      *)
(*   a mapping     [k |-> "dict",  fields |-> [key |-> value, ...]]        *)
(*   None          [k |-> "none"]                                          *)
(***************************************************************************)
EXTENDS Integers, Sequences, FiniteSets, TLC

VARIABLES
    \* map_coords(func, obj): the arguments of the call and its outcome
    func, obj, mapped,
    \* coords(obj): the argument of the call and what the generator yields
    source, extracted,
    \* generate_random: the arguments, the position in the body, the locals
    featureType, numberFeatures, numberVertices, boundingBox,
    pc, i, group, created, line, angleSteps, sum, angle, points, result

vars == <<func, obj, mapped, source, extracted,
          featureType, numberFeatures, numberVertices, boundingBox,
          pc, i, group, created, line, angleSteps, sum, angle, points, result>>

mapVars == <<func, obj, mapped>>
extractVars == <<source, extracted>>
genVars == <<featureType, numberFeatures, numberVertices, boundingBox,
             pc, i, group, created, line, angleSteps, sum, angle, points, result>>

---------------------------------------------------------------------------
\* Bounds of the model

\* The longest sequence at any nesting level of an input to coords and map_coords.
MaxLen == 2

\* The largest numberFeatures and numberVertices passed to generate_random,
\* and the most vertices one call is asked for in all.
MaxFeatures == 2
MaxVertices == 3
MaxCallVertices == 4

---------------------------------------------------------------------------
\* Python values

Num(n) == [k |-> "num", v |-> n]
List(s) == [k |-> "list", items |-> s]
Tuple(s) == [k |-> "tuple", items |-> s]
Dict(r) == [k |-> "dict", fields |-> r]
None == [k |-> "none"]

SeqOf(kind, s) == [k |-> kind, items |-> s]

IsSeq(x) == x.k \in {"list", "tuple"}

\* isinstance(e, (float, int))
IsNumber(e) == e.k = "num"

\* An outcome of a call: a returned value or a raised exception.
Returned(x) == [outcome |-> "return", value |-> x]
Raised(e) == [outcome |-> e, value |-> None]
NotCalled == [outcome |-> "pending", value |-> None]

---------------------------------------------------------------------------
\* The inputs: nested coordinate structures of uniform depth.

\* One kind (list or tuple) per nesting level, level 1 being the coordinate
\* itself: all lists (decoded JSON), all tuples, the shape map_coords builds
\* (tuples inside lists), and its opposite.
KindPatterns(depth) ==
    { [l \in 1..depth |-> "list"],
      [l \in 1..depth |-> "tuple"],
      [l \in 1..depth |-> IF l = 1 THEN "tuple" ELSE "list"],
      [l \in 1..depth |-> IF l = 1 THEN "list" ELSE "tuple"] }

Seeds == {0, -7}

ShapeParams(depth) ==
    [kinds : KindPatterns(depth), cnt : [1..depth -> 0..MaxLen], seed : Seeds]

\* The structure `level` levels deep that p describes. The node at index idx
\* of its parent has (p.cnt[level] + idx) % (MaxLen + 1) elements, so sibling
\* branches differ in length and some are empty; every number is different
\* from every other one of the structure (tag encodes the position).
RECURSIVE Nested(_, _, _, _)
Nested(level, p, idx, tag) ==
    LET n == (p.cnt[level] + idx) % (MaxLen + 1)
    IN  IF level = 1
        THEN SeqOf(p.kinds[level],
                   [j \in 1..n |-> Num(p.seed + tag * (MaxLen + 1) + j)])
        ELSE SeqOf(p.kinds[level],
                   [j \in 1..n |-> Nested(level - 1, p, j, tag * (MaxLen + 1) + j)])

Structures(depth) == { Nested(depth, p, 0, 0) : p \in ShapeParams(depth) }

---------------------------------------------------------------------------
\* map_coords

Funcs == {"identity", "negate", "succ"}

\* func(x) for the transforms the model passes
Apply(f, x) ==
    CASE f = "identity" -> x
      [] f = "negate" -> 0 - x
      [] f = "succ" -> x + 1

\* tuple(map(func, c))
MapTupleAsList(f, c) == List([j \in 1..Len(c.items) |-> Num(Apply(f, c.items[j].v))])
MapTupleFirstOnly(f, c) ==
    Tuple([j \in 1..Len(c.items) |->
              IF j = 1 THEN Num(Apply(f, c.items[j].v)) ELSE c.items[j]])
MapTuple(f, c) == Tuple([j \in 1..Len(c.items) |-> Num(Apply(f, c.items[j].v))])

\* [tuple(map(func, c)) for c in curve]
MapCurve(f, curve) == List([j \in 1..Len(curve.items) |-> MapTuple(f, curve.items[j])])

\* [[tuple(map(func, c)) for c in curve] for curve in part]
MapPart(f, part) == List([j \in 1..Len(part.items) |-> MapCurve(f, part.items[j])])

\* raise ValueError("Invalid geometry object %s" % repr(obj))
InvalidGeometryIgnored(o) == Returned(None)
InvalidGeometry(o) == Raised("ValueError")

map_coords(f, o) ==
    LET t == o.fields.type
    IN  IF t = "Point"
        THEN Returned(Dict([type |-> t, coordinates |-> MapTuple(f, o.fields.coordinates)]))
        ELSE IF t \in {"LineString", "MultiPoint"}
        THEN Returned(Dict([type |-> t, coordinates |-> MapCurve(f, o.fields.coordinates)]))
        ELSE IF t \in {"MultiLineString", "Polygon"}
        THEN Returned(Dict([type |-> t, coordinates |-> MapPart(f, o.fields.coordinates)]))
        ELSE IF t = "MultiPolygon"
        THEN Returned(Dict([type |-> t, coordinates |->
                List([j \in 1..Len(o.fields.coordinates.items) |->
                         MapPart(f, o.fields.coordinates.items[j])])]))
        ELSE InvalidGeometry(o)

\* The nesting depth of coordinates each type requires.
SupportedTypes ==
    {"Point", "LineString", "MultiPoint", "MultiLineString", "Polygon", "MultiPolygon"}

TypeDepth(t) ==
    CASE t = "Point" -> 1
      [] t \in {"LineString", "MultiPoint"} -> 2
      [] t \in {"MultiLineString", "Polygon"} -> 3
      [] t = "MultiPolygon" -> 4

\* A bounding box member, as a geometry may carry beside type and coordinates.
SomeBBox == List(<<Num(0), Num(0), Num(9), Num(9)>>)

Geometries ==
    UNION { { Dict([type |-> t, coordinates |-> c]) : c \in Structures(TypeDepth(t)) }
            : t \in SupportedTypes }

GeometriesWithBBox ==
    UNION { { Dict([type |-> t, coordinates |-> c, bbox |-> SomeBBox])
              : c \in Structures(TypeDepth(t)) } : t \in {"Point", "Polygon"} }

\* Records map_coords has no rule for.
Unsupported ==
    { Dict([type |-> "GeometryCollection", geometries |-> List(<<g>>)])
        : g \in { Dict([type |-> "Point", coordinates |-> c]) : c \in Structures(1) } }
    \cup { Dict([type |-> "Feature", geometry |-> Dict([type |-> "Point", coordinates |-> c])])
           : c \in Structures(1) }
    \cup { Dict([type |-> t, coordinates |-> c])
           : t \in {"Circle", "point", ""}, c \in Structures(2) }
    \cup { Dict([type |-> "GeometryCollection", coordinates |-> c]) : c \in Structures(4) }

MapInputs == Geometries \cup GeometriesWithBBox \cup Unsupported

MapInit ==
    /\ func \in Funcs
    /\ obj \in MapInputs
    /\ mapped = NotCalled

MapCoords ==
    /\ mapped = NotCalled
    /\ mapped' = map_coords(func, obj)
    /\ UNCHANGED <<func, obj, extractVars, genVars>>

MapNext == MapCoords

MapCalled == mapped # NotCalled

\* x is d levels deep at every branch: numbers at level 0, sequences above.
RECURSIVE HasDepth(_, _)
HasDepth(x, d) ==
    IF d = 0 THEN IsNumber(x)
    ELSE IsSeq(x) /\ \A j \in 1..Len(x.items) : HasDepth(x.items[j], d - 1)

\* out has the nesting and the lengths of in, whatever the kinds of the
\* sequences, and each number of out is f of the number of in at its place.
RECURSIVE MappedLike(_, _, _)
MappedLike(out, in, f) ==
    IF IsNumber(in) THEN IsNumber(out) /\ out.v = Apply(f, in.v)
    ELSE /\ IsSeq(out)
         /\ Len(out.items) = Len(in.items)
         /\ \A j \in 1..Len(in.items) : MappedLike(out.items[j], in.items[j], f)

\* How many numbers x holds.
RECURSIVE SumOver(_, _)
RECURSIVE NumberCount(_)
NumberCount(x) == IF IsNumber(x) THEN 1 ELSE SumOver(x.items, 1)
SumOver(s, j) == IF j > Len(s) THEN 0 ELSE NumberCount(s[j]) + SumOver(s, j + 1)

\* x is built the way map_coords builds: every coordinate (level 1) a tuple,
\* every level above it a list.
RECURSIVE BuiltLikeMapCoords(_, _)
BuiltLikeMapCoords(x, d) ==
    IF d = 1 THEN x.k = "tuple"
    ELSE x.k = "list" /\ \A j \in 1..Len(x.items) : BuiltLikeMapCoords(x.items[j], d - 1)

Supported == obj.fields.type \in SupportedTypes

\* C1 as stated, for the records G that hold at least one number: for every G
\* of a supported type with the depth its type requires, map_coords with the
\* identity function returns a record with G's type and coordinates equal to
\* G's at every nesting level (Python's ==, under which a tuple never equals a
\* list).
C1_IdentityReturnsEqualRecord ==
    (MapCalled /\ func = "identity" /\ Supported
        /\ NumberCount(obj.fields.coordinates) > 0) =>
        /\ mapped.outcome = "return"
        /\ mapped.value.fields.type = obj.fields.type
        /\ mapped.value.fields.coordinates = obj.fields.coordinates

\* C1 amended: map_coords with the identity function returns a record of the
\* same type holding the same numbers at the same places at every nesting
\* level; its coordinates are equal to G's exactly when each coordinate of G
\* is a tuple and each level above it a list.
C1_IdentityEqualUpToSequenceKind ==
    (MapCalled /\ func = "identity" /\ Supported) =>
        /\ mapped.outcome = "return"
        /\ mapped.value.fields.type = obj.fields.type
        /\ MappedLike(mapped.value.fields.coordinates, obj.fields.coordinates, "identity")
        /\ (mapped.value.fields.coordinates = obj.fields.coordinates) <=>
               BuiltLikeMapCoords(obj.fields.coordinates, TypeDepth(obj.fields.type))

\* The identity was mapped over a MultiPolygon of lists holding numbers: the
\* result holds the same numbers and is not equal to the input.
C1_Witness ==
    /\ MapCalled /\ func = "identity"
    /\ obj.fields.type = "MultiPolygon"
    /\ obj.fields.coordinates.k = "list"
    /\ NumberCount(obj.fields.coordinates) >= 3
    /\ mapped.outcome = "return"
    /\ mapped.value.fields.coordinates # obj.fields.coordinates

\* C2: for every supported type and transform f, the result of map_coords(f, G)
\* has G's type, the nesting depth the type requires, G's element count at
\* every level, and at each place f of the number G has there.
C2_ShapePreserved ==
    (MapCalled /\ Supported) =>
        /\ mapped.outcome = "return"
        /\ mapped.value.fields.type = obj.fields.type
        /\ HasDepth(mapped.value.fields.coordinates, TypeDepth(obj.fields.type))
        /\ MappedLike(mapped.value.fields.coordinates, obj.fields.coordinates, func)

\* A transform that changes numbers was mapped over a MultiPolygon with
\* several numbers.
C2_Witness ==
    /\ MapCalled /\ func = "negate"
    /\ obj.fields.type = "MultiPolygon"
    /\ NumberCount(obj.fields.coordinates) >= 4
    /\ mapped.outcome = "return"
    /\ mapped.value.fields.coordinates # obj.fields.coordinates

\* C3: for every record whose type is none of the six supported ones,
\* map_coords raises ValueError and returns no record, whatever the transform
\* and the other members of the record.
C3_UnsupportedRejected ==
    (MapCalled /\ ~Supported) => mapped = Raised("ValueError")

\* map_coords was called on a GeometryCollection and raised.
C3_Witness ==
    /\ MapCalled
    /\ obj.fields.type = "GeometryCollection"
    /\ "geometries" \in DOMAIN obj.fields
    /\ mapped.outcome = "ValueError"

---------------------------------------------------------------------------
\* coords

\* What a run of the generator coords(obj) gives when consumed to its end:
\* the tuples it yields, in order, and the exception that ends it, if any.
Yields(ys) == [yields |-> ys, error |-> "none"]
Fails(ys, e) == [yields |-> ys, error |-> e]

\* The structure coords traverses (lines 14-19): a list or tuple as it is,
\* else geometry.coordinates of a mapping with a geometry member, else the
\* coordinates member. A mapping with neither is traversed itself: its keys
\* are strings, and the recursive call on the first key ends in 'str' object
\* has no attribute 'get'. Anything else fails at the test 'geometry' in obj.
ResolveCoordinatesFirst(o) ==
    IF IsSeq(o) THEN Yields(o)
    ELSE IF o.k = "dict" /\ "coordinates" \in DOMAIN o.fields THEN Yields(o.fields.coordinates)
    ELSE IF o.k = "dict" /\ "geometry" \in DOMAIN o.fields
    THEN Yields(o.fields.geometry.fields.coordinates)
    ELSE IF o.k = "dict" THEN Fails(<<>>, "AttributeError")
    ELSE Fails(<<>>, "TypeError")
Resolve(o) ==
    IF IsSeq(o) THEN Yields(o)
    ELSE IF o.k = "dict" /\ "geometry" \in DOMAIN o.fields
    THEN Yields(o.fields.geometry.fields.coordinates)
    ELSE IF o.k = "dict" /\ "coordinates" \in DOMAIN o.fields THEN Yields(o.fields.coordinates)
    ELSE IF o.k = "dict" THEN Fails(<<>>, "AttributeError")
    ELSE Fails(<<>>, "TypeError")

\* What the loop does at a number e of coordinates (lines 21-23):
\* yield tuple(coordinates), then break.
YieldAndContinue(coordinates, rest) ==
    Fails(<<Tuple(coordinates.items)>> \o rest.yields, rest.error)
YieldAndBreak(coordinates, rest) == Yields(<<Tuple(coordinates.items)>>)

RECURSIVE coords(_)
RECURSIVE CoordsLoop(_, _)
\* for e in coordinates, from its element number j on (lines 20-25)
CoordsLoop(coordinates, j) ==
    IF j > Len(coordinates.items) THEN Yields(<<>>)
    ELSE LET e == coordinates.items[j]
         IN  IF IsNumber(e)
             THEN YieldAndBreak(coordinates, CoordsLoop(coordinates, j + 1))
             ELSE LET sub == coords(e)
                  IN  IF sub.error # "none" THEN sub
                      ELSE LET rest == CoordsLoop(coordinates, j + 1)
                           IN  Fails(sub.yields \o rest.yields, rest.error)

coords(o) ==
    LET r == Resolve(o)
    IN  IF r.error # "none" THEN r ELSE CoordsLoop(r.yields, 1)

\* The inputs of coords: raw structures, geometries, features, features that
\* also have a coordinates member of their own, and mappings with neither.
FeatureOf(g) == Dict([type |-> "Feature", geometry |-> g])

\* The coordinates member a Feature-shaped record may carry beside geometry.
OwnCoordinates == List(<<Num(100), Num(200)>>)

FeatureWithOwnCoordinates(g) ==
    Dict([type |-> "Feature", geometry |-> g, coordinates |-> OwnCoordinates])

RawInputs == UNION { Structures(d) : d \in 1..4 }

ExtractInputs ==
    RawInputs
    \cup Geometries
    \cup { FeatureOf(g) : g \in Geometries }
    \cup { FeatureWithOwnCoordinates(g) : g \in Geometries }
    \cup { Dict([type |-> "GeometryCollection", geometries |-> List(<<g>>)])
           : g \in { Dict([type |-> "Point", coordinates |-> c]) : c \in Structures(1) } }

ExtractInit ==
    /\ source \in ExtractInputs
    /\ extracted = NotCalled

\* list(coords(source))
Extract ==
    /\ extracted = NotCalled
    /\ extracted' = coords(source)
    /\ UNCHANGED <<source, mapVars, genVars>>

ExtractNext == Extract

Extracted == extracted # NotCalled

\* The structure a well-formed input holds and its depth, read off the input.
IsFeature == source.k = "dict" /\ "geometry" \in DOMAIN source.fields
IsGeometry ==
    source.k = "dict" /\ ~IsFeature /\ "coordinates" \in DOMAIN source.fields

Held ==
    IF IsFeature THEN source.fields.geometry.fields.coordinates
    ELSE IF IsGeometry THEN source.fields.coordinates
    ELSE source

\* x is a sequence with only numbers in it, and at least one.
IsCoordinate(x) ==
    IsSeq(x) /\ Len(x.items) > 0 /\ \A j \in 1..Len(x.items) : IsNumber(x.items[j])

\* The innermost non-empty sequences of x, each as a tuple, left to right and
\* depth first; an empty sequence contributes nothing.
RECURSIVE Innermost(_)
RECURSIVE InnermostFrom(_, _)
Innermost(x) ==
    IF IsCoordinate(x) THEN <<Tuple(x.items)>>
    ELSE InnermostFrom(x.items, Len(x.items))
InnermostFrom(s, n) ==
    IF n = 0 THEN <<>> ELSE InnermostFrom(s, n - 1) \o Innermost(s[n])

\* C4: for every well-formed nested structure, coords yields each innermost
\* non-empty coordinate sequence exactly once, as one tuple, in left-to-right
\* depth-first order, and nothing for an empty branch; for a Polygon it yields
\* the vertices of its rings in their order, the closing vertex included.
C4_OrderAndCompleteness ==
    (Extracted /\ (IsSeq(source) \/ IsFeature \/ IsGeometry)) =>
        /\ extracted.error = "none"
        /\ extracted.yields = Innermost(Held)
        /\ \A j \in 1..Len(extracted.yields) : extracted.yields[j].k = "tuple"
        /\ (IsGeometry /\ source.fields.type = "Polygon"
              /\ Len(Held.items) = 1 /\ HasDepth(Held, 3)
              /\ \A j \in 1..Len(Held.items[1].items) : Len(Held.items[1].items[j].items) > 0)
             => /\ Len(extracted.yields) = Len(Held.items[1].items)
                /\ \A j \in 1..Len(extracted.yields) :
                      extracted.yields[j].items = Held.items[1].items[j].items

\* coords ran over a structure three levels deep with an empty branch and
\* yielded several coordinates, all different.
C4_Witness ==
    /\ Extracted
    /\ IsSeq(source)
    /\ HasDepth(source, 3)
    /\ \E j \in 1..Len(source.items) : Len(source.items[j].items) = 0
    /\ Len(extracted.yields) >= 2
    /\ extracted.yields[1] # extracted.yields[2]

\* C5: coords traverses a raw list or tuple as it is; else, for a mapping with
\* a geometry member, geometry.coordinates (also when the mapping has a
\* coordinates member); else the coordinates member. So for a Feature-shaped
\* record coords(feature), coords(feature.geometry) and
\* coords(feature.geometry.coordinates) yield the same; a Feature holding the
\* Point [1, 2] yields exactly (1, 2).
C5_InputResolution ==
    /\ (Extracted /\ IsFeature) =>
          /\ extracted = coords(source.fields.geometry)
          /\ extracted = coords(source.fields.geometry.fields.coordinates)
          /\ extracted = CoordsLoop(source.fields.geometry.fields.coordinates, 1)
    /\ (Extracted /\ IsGeometry) =>
          /\ extracted = coords(source.fields.coordinates)
          /\ extracted = CoordsLoop(source.fields.coordinates, 1)
    /\ (Extracted /\ IsSeq(source)) => extracted = CoordsLoop(source, 1)
    /\ (Extracted /\ source = FeatureOf(Dict([type |-> "Point",
                                  coordinates |-> List(<<Num(1), Num(2)>>)])))
          => extracted = Yields(<<Tuple(<<Num(1), Num(2)>>)>>)

\* coords ran over a Feature that has a coordinates member of its own, other
\* than its geometry's, and yielded the geometry's coordinates.
C5_Witness ==
    /\ Extracted
    /\ IsFeature
    /\ "coordinates" \in DOMAIN source.fields
    /\ Len(extracted.yields) >= 2
    /\ extracted.yields # <<Tuple(source.fields.coordinates.items)>>

---------------------------------------------------------------------------
\* generate_random
\*
\* Angles are whole steps of a turn cut in Len(CosTable) steps, 2 * math.pi
\* being one turn; lengths are whole thousandths where the code has fractions
\* (ctrX, ctrY, the arguments of clip).

\* 1000 * cos of each step of the turn, from angle 0
CosTable ==
    << 1000, 995, 978, 951, 914, 866, 809, 743, 669, 588, 500, 407, 309, 208, 105,
       0, -105, -208, -309, -407, -500, -588, -669, -743, -809, -866, -914, -951, -978, -995,
       -1000, -995, -978, -951, -914, -866, -809, -743, -669, -588, -500, -407, -309, -208, -105,
       0, 105, 208, 309, 407, 500, 588, 669, 743, 809, 866, 914, 951, 978, 995 >>

\* 2 * math.pi
FullTurn == Len(CosTable)

\* 1000 * math.cos(a) and 1000 * math.sin(a)
Cos(a) == CosTable[(a % FullTurn) + 1]
Sin(a) == Cos(a - FullTurn \div 4)

\* int(m / 1000): Python's int() rounds towards zero
IntOfMilli(m) == IF m >= 0 THEN m \div 1000 ELSE 0 - ((0 - m) \div 1000)

aveRadius == 60
\* ctrX = 0.1 and ctrY = 0.2, in thousandths
ctrX == 100
ctrY == 200

clip(x, min, max) ==
    IF min > max THEN x
    ELSE IF x < min THEN min
    ELSE IF x > max THEN max
    ELSE x

\* clip(0.1, 0, 1) * 2 * math.pi / numberVertices
irregularity(n) == (clip(100, 0, 1000) * FullTurn) \div (1000 * n)
\* clip(0.5, 0, 1) * aveRadius
spikeyness == (clip(500, 0, 1000) * aveRadius) \div 1000

lower(n) == (FullTurn \div n) - irregularity(n)
upper(n) == (FullTurn \div n) + irregularity(n)

\* random.randrange(a, b): an integer of a..b-1; ValueError when there is none
randrange(a, b) == a .. (b - 1)

\* random.uniform(a, b), the draws the model takes: both ends and the middle
uniform(a, b) == {a, (a + b) \div 2, b}

\* random.uniform(0, 2 * math.pi), the draws the model takes
InitialAngles == {0, FullTurn \div 4}

\* random.gauss(aveRadius, spikeyness), the draws the model takes: the mean
\* and three deviations either side
gauss(mu, sigma) == {mu - 3 * sigma, mu, mu + 3 * sigma}

\* The geometry records the constructors of the geojson package build.
Point(c) == Dict([type |-> "Point", coordinates |-> c])
LineString(cs) == Dict([type |-> "LineString", coordinates |-> List(cs)])
Polygon(rings) == Dict([type |-> "Polygon", coordinates |-> List(rings)])
GeometryCollection(gs) == Dict([type |-> "GeometryCollection", geometries |-> List(gs)])

lonMin == boundingBox[1]
lonMax == boundingBox[3]
latMin == boundingBox[2]
latMax == boundingBox[4]

\* numberFeatures > 1
IsCollectionRequestFromOne(n) == n >= 1
IsCollectionRequest(n) == n > 1

\* firstVal = points[0]; points.append(firstVal)
CloseRingOmitted(ps) == ps
CloseRing(ps) == Append(ps, ps[1])

\* The calls the model makes. The default boundingBox holds floats, which
\* random.randrange refuses or accepts depending on the Python version, so
\* Point and LineString are asked for with integer boxes only; the polygon
\* builder never reads the box.
DefaultVertices == 3
WorldBox == <<-180, -90, 180, 90>>
SmallBox == <<-1, -1, 1, 1>>
Boxes == { SmallBox, <<0, 0, 2, 1>>, <<0, 0, 0, 1>>, <<0, 1, 2, 1>>, <<1, 0, 0, 1>> }

CallVertices(nf, nv) == (IF nf > 1 THEN nf ELSE 1) * nv

Sizes ==
    { s \in (1..MaxFeatures) \X (-1..MaxVertices) : CallVertices(s[1], s[2]) <= MaxCallVertices }

Calls ==
    { [featureType |-> "Point", numberFeatures |-> nf, numberVertices |-> DefaultVertices,
       boundingBox |-> b] : nf \in 1..MaxFeatures, b \in Boxes }
    \cup { [featureType |-> "LineString", numberFeatures |-> s[1], numberVertices |-> s[2],
            boundingBox |-> b] : s \in Sizes, b \in Boxes }
    \cup { [featureType |-> "Polygon", numberFeatures |-> s[1], numberVertices |-> s[2],
            boundingBox |-> b] : s \in Sizes, b \in {WorldBox, SmallBox} }
    \cup { [featureType |-> t, numberFeatures |-> nf, numberVertices |-> DefaultVertices,
            boundingBox |-> WorldBox] : t \in {"MultiPoint", "GeometryCollection", ""},
                                        nf \in 1..MaxFeatures }

GenInit ==
    /\ \E c \in Calls :
          /\ featureType = c.featureType
          /\ numberFeatures = c.numberFeatures
          /\ numberVertices = c.numberVertices
          /\ boundingBox = c.boundingBox
    /\ pc = "main"
    /\ i = 0
    /\ group = <<>>
    /\ created = <<>>
    /\ line = <<>>
    /\ angleSteps = <<>>
    /\ sum = 0
    /\ angle = 0
    /\ points = <<>>
    /\ result = NotCalled

args == <<featureType, numberFeatures, numberVertices, boundingBox>>
polyLocals == <<angleSteps, sum, angle, points>>

\* The body is at a place where the next geometry is asked for: an iteration
\* of the loop of line 147, or the else branch of line 157.
AtBuilderCall ==
    /\ pc = "main"
    /\ IsCollectionRequest(numberFeatures) => i < numberFeatures

\* A builder returns g: group.append(g) in the loop, return g otherwise.
Deliver(g) ==
    /\ created' = Append(created, g)
    /\ i' = i + 1
    /\ IF IsCollectionRequest(numberFeatures)
       THEN group' = Append(group, g) /\ pc' = "main" /\ result' = result
       ELSE group' = group /\ pc' = "done" /\ result' = Returned(g)

\* An exception leaves generate_random.
Raise(e) ==
    /\ pc' = "done"
    /\ result' = Raised(e)
    /\ UNCHANGED <<i, group, created>>

\* createPoint(): Point((randomLon(), randomLat()))
CreatePoint ==
    /\ AtBuilderCall
    /\ featureType = "Point"
    /\ IF randrange(lonMin, lonMax) = {} \/ randrange(latMin, latMax) = {}
       THEN Raise("ValueError")
       ELSE \E lon \in randrange(lonMin, lonMax), lat \in randrange(latMin, latMax) :
               Deliver(Point(Tuple(<<Num(lon), Num(lat)>>)))
    /\ UNCHANGED <<args, line, polyLocals, mapVars, extractVars>>

\* createLine() is entered: coords = []
CallCreateLine ==
    /\ AtBuilderCall
    /\ featureType = "LineString"
    /\ pc' = "createLine"
    /\ line' = <<>>
    /\ UNCHANGED <<args, i, group, created, result, polyLocals, mapVars, extractVars>>

\* coords.append((randomLon(), randomLat()))
LineVertex ==
    /\ pc = "createLine"
    /\ Len(line) < numberVertices
    /\ IF randrange(lonMin, lonMax) = {} \/ randrange(latMin, latMax) = {}
       THEN Raise("ValueError") /\ line' = <<>>
       ELSE /\ \E lon \in randrange(lonMin, lonMax), lat \in randrange(latMin, latMax) :
                  line' = Append(line, Tuple(<<Num(lon), Num(lat)>>))
            /\ UNCHANGED <<pc, i, group, created, result>>
    /\ UNCHANGED <<args, polyLocals, mapVars, extractVars>>

\* return LineString(coords)
LineReturn ==
    /\ pc = "createLine"
    /\ Len(line) >= numberVertices
    /\ Deliver(LineString(line))
    /\ line' = <<>>
    /\ UNCHANGED <<args, polyLocals, mapVars, extractVars>>

\* createPoly() is entered: irregularity divides by numberVertices. With a
\* negative numberVertices no loop of createPoly runs.
CallCreatePoly ==
    /\ AtBuilderCall
    /\ featureType = "Polygon"
    /\ IF numberVertices = 0
       THEN Raise("ZeroDivisionError")
       ELSE pc' = "angleSteps" /\ UNCHANGED <<i, group, created, result>>
    /\ UNCHANGED <<args, line, polyLocals, mapVars, extractVars>>

\* tmp = random.uniform(lower, upper); angleSteps.append(tmp); sum = sum + tmp
AngleStep ==
    /\ pc = "angleSteps"
    /\ Len(angleSteps) < numberVertices
    /\ \E tmp \in uniform(lower(numberVertices), upper(numberVertices)) :
          /\ angleSteps' = Append(angleSteps, tmp)
          /\ sum' = sum + tmp
    /\ UNCHANGED <<args, pc, i, group, created, result, line, angle, points,
                   mapVars, extractVars>>

\* k = sum / (2 * math.pi); angleSteps[i] = angleSteps[i] / k for every i;
\* points = []; angle = random.uniform(0, 2 * math.pi)
Normalize ==
    /\ pc = "angleSteps"
    /\ Len(angleSteps) >= numberVertices
    /\ angleSteps' = [j \in 1..Len(angleSteps) |-> (angleSteps[j] * FullTurn) \div sum]
    /\ \E a \in InitialAngles : angle' = a
    /\ points' = <<>>
    /\ pc' = "points"
    /\ UNCHANGED <<args, i, group, created, result, line, sum, mapVars, extractVars>>

\* r_i = clip(random.gauss(aveRadius, spikeyness), 0, 2 * aveRadius); the
\* vertex (int(x), int(y)) is appended; angle = angle + angleSteps[i]
Vertex ==
    /\ pc = "points"
    /\ Len(points) < numberVertices
    /\ \E draw \in gauss(aveRadius, spikeyness) :
          LET r_i == clip(draw, 0, 2 * aveRadius)
              x == ctrX + r_i * Cos(angle)
              y == ctrY + r_i * Sin(angle)
          IN  points' = Append(points, Tuple(<<Num(IntOfMilli(x)), Num(IntOfMilli(y))>>))
    /\ angle' = angle + angleSteps[Len(points) + 1]
    /\ UNCHANGED <<args, pc, i, group, created, result, line, angleSteps, sum,
                   mapVars, extractVars>>

\* firstVal = points[0]; points.append(firstVal); return Polygon([points]).
\* points[0] of an empty list raises IndexError.
ClosePoly ==
    /\ pc = "points"
    /\ Len(points) >= numberVertices
    /\ IF points = <<>>
       THEN Raise("IndexError")
       ELSE Deliver(Polygon(<<List(CloseRing(points))>>))
    /\ angleSteps' = <<>>
    /\ sum' = 0
    /\ angle' = 0
    /\ points' = <<>>
    /\ UNCHANGED <<args, line, mapVars, extractVars>>

HasBuilder == featureType \in {"Point", "LineString", "Polygon"}

\* An iteration of the loop of line 147 in which no branch is taken.
SkipFeature ==
    /\ AtBuilderCall
    /\ IsCollectionRequest(numberFeatures)
    /\ ~HasBuilder
    /\ i' = i + 1
    /\ UNCHANGED <<args, pc, group, created, result, line, polyLocals, mapVars, extractVars>>

\* return GeometryCollection(group)
ReturnCollection ==
    /\ pc = "main"
    /\ IsCollectionRequest(numberFeatures)
    /\ i >= numberFeatures
    /\ result' = Returned(GeometryCollection(group))
    /\ pc' = "done"
    /\ UNCHANGED <<args, i, group, created, line, polyLocals, mapVars, extractVars>>

\* The else branch of line 157 with no test true: the body ends, and the call
\* returns None.
FallOffEnd ==
    /\ AtBuilderCall
    /\ ~IsCollectionRequest(numberFeatures)
    /\ ~HasBuilder
    /\ result' = Returned(None)
    /\ pc' = "done"
    /\ UNCHANGED <<args, i, group, created, line, polyLocals, mapVars, extractVars>>

GenNext ==
    \/ CreatePoint
    \/ CallCreateLine
    \/ LineVertex
    \/ LineReturn
    \/ CallCreatePoly
    \/ AngleStep
    \/ Normalize
    \/ Vertex
    \/ ClosePoly
    \/ SkipFeature
    \/ ReturnCollection
    \/ FallOffEnd

Done == pc = "done"

\* The geometries a finished call returned: the members of the collection, or
\* the one geometry.
ReturnedGeometries ==
    IF result.outcome # "return" \/ result.value.k # "dict" THEN <<>>
    ELSE IF "geometries" \in DOMAIN result.value.fields
    THEN result.value.fields.geometries.items
    ELSE <<result.value>>

\* The coordinates of a generated geometry, as one sequence of (lon, lat).
VerticesOf(g) ==
    IF g.fields.type = "Point" THEN <<g.fields.coordinates>>
    ELSE IF g.fields.type = "LineString" THEN g.fields.coordinates.items
    ELSE g.fields.coordinates.items[1].items

InBox(c) ==
    /\ lonMin <= c.items[1].v /\ c.items[1].v <= lonMax
    /\ latMin <= c.items[2].v /\ c.items[2].v <= latMax

AllInBox ==
    \A n \in 1..Len(ReturnedGeometries) :
        \A m \in 1..Len(VerticesOf(ReturnedGeometries[n])) :
            InBox(VerticesOf(ReturnedGeometries[n])[m])

\* C6: for every bounding box with minLon <= maxLon and minLat <= maxLat, every
\* call of generate_random for Point or LineString returns a geometry, and
\* every coordinate of it lies in the box.
C6_PointsAndLinesInBox ==
    (featureType \in {"Point", "LineString"} /\ lonMin <= lonMax /\ latMin <= latMax) =>
        /\ result.outcome \in {"pending", "return"}
        /\ Done => (result.value.k = "dict" /\ AllInBox)

\* C7: every vertex of a Polygon that generate_random returns lies in the
\* bounding box it was passed.
C7_PolygonsInBox ==
    (featureType = "Polygon" /\ Done /\ result.outcome = "return") => AllInBox

IsClosedRingOf(g, n) ==
    /\ g.fields.type = "Polygon"
    /\ g.fields.coordinates.k = "list"
    /\ Len(g.fields.coordinates.items) = 1
    /\ LET ring == g.fields.coordinates.items[1].items
       IN  /\ Len(ring) = n + 1
           /\ ring[1] = ring[Len(ring)]
           /\ \A m \in 1..Len(ring) : IsCoordinate(ring[m]) /\ Len(ring[m].items) = 2

\* C8: for every numberVertices and every outcome of the random draws, a
\* Polygon that generate_random returns (alone or in a collection) has exactly
\* one ring, of numberVertices + 1 vertices, the first and the last identical.
C8_RingClosed ==
    featureType = "Polygon" =>
        /\ \A n \in 1..Len(ReturnedGeometries) :
              IsClosedRingOf(ReturnedGeometries[n], numberVertices)
        /\ \A n \in 1..Len(group) : IsClosedRingOf(group[n], numberVertices)
        /\ (Done /\ result.outcome = "return" /\ numberFeatures <= 1)
              => Len(ReturnedGeometries) = 1

\* A Polygon of three vertices was returned whose first two vertices differ.
C8_Witness ==
    /\ featureType = "Polygon"
    /\ Done
    /\ numberFeatures = 1
    /\ numberVertices = 3
    /\ result.outcome = "return"
    /\ LET ring == result.value.fields.coordinates.items[1].items
       IN  ring[1] # ring[2] /\ ring[2] # ring[3]

\* C9: for featureType Point, LineString or Polygon, generate_random with
\* numberFeatures = n > 1 returns a GeometryCollection of exactly n geometries
\* of the requested type, in the order they were generated; with
\* numberFeatures = 1 it returns the one geometry of the requested type, not
\* wrapped in a collection.
C9_CollectionCardinality ==
    (HasBuilder /\ Done /\ result.outcome = "return") =>
        /\ numberFeatures > 1 =>
              /\ result.value.k = "dict"
              /\ DOMAIN result.value.fields = {"type", "geometries"}
              /\ result.value.fields.type = "GeometryCollection"
              /\ result.value.fields.geometries = List(created)
              /\ Len(created) = numberFeatures
              /\ \A n \in 1..Len(created) : created[n].fields.type = featureType
        /\ numberFeatures = 1 =>
              /\ result.value.k = "dict"
              /\ DOMAIN result.value.fields = {"type", "coordinates"}
              /\ result.value.fields.type = featureType
              /\ created = <<result.value>>

\* A collection of two different LineStrings was returned.
C9_Witness ==
    /\ featureType = "LineString"
    /\ Done
    /\ numberFeatures = 2
    /\ numberVertices = 2
    /\ result.outcome = "return"
    /\ Len(result.value.fields.geometries.items) = 2
    /\ result.value.fields.geometries.items[1] # result.value.fields.geometries.items[2]

\* C10: for every featureType other than Point, LineString and Polygon and for
\* every numberFeatures, generate_random raises ValueError where it finds the
\* type unsupported and returns nothing: no value, no collection.
C10_UnsupportedFeatureTypeRaises ==
    ~HasBuilder =>
        /\ result.outcome \in {"pending", "ValueError"}
        /\ Done => result = Raised("ValueError")

---------------------------------------------------------------------------
\* Each component is checked on its own; the other two stay as constructed.

MapIdle ==
    /\ func = "identity"
    /\ obj = None
    /\ mapped = NotCalled

ExtractIdle ==
    /\ source = None
    /\ extracted = NotCalled

GenIdle ==
    /\ featureType = ""
    /\ numberFeatures = 0
    /\ numberVertices = 0
    /\ boundingBox = <<0, 0, 0, 0>>
    /\ pc = "idle"
    /\ i = 0
    /\ group = <<>>
    /\ created = <<>>
    /\ line = <<>>
    /\ angleSteps = <<>>
    /\ sum = 0
    /\ angle = 0
    /\ points = <<>>
    /\ result = NotCalled

InitMap == MapInit /\ ExtractIdle /\ GenIdle
SpecMap == InitMap /\ [][MapNext]_vars

InitExtract == ExtractInit /\ MapIdle /\ GenIdle
SpecExtract == InitExtract /\ [][ExtractNext]_vars

InitGen == GenInit /\ MapIdle /\ ExtractIdle
SpecGen == InitGen /\ [][GenNext]_vars

====
